---- MODULE Spec2Model ----
(***************************************************************************)
(* Model of presence_analyzer: the CSV extraction get_data, the weekday    *)
(* aggregation helpers, the three statistics views and the cache           *)
(* decorator of utils.py.                                                  *)
(*                                                                         *)
(* Three state machines share the module:                                  *)
(*   Spec       get_data run line by line over a source, then the views    *)
(*              queried on the table it returned;                          *)
(*   GroupSpec  group_by_weekday and group_by_weekday_start_end applied    *)
(*              to any small map of one user;                              *)
(*   CacheSpec  threads calling a function wrapped by cache(cache_time),   *)
(*              with the lock, the entry table and the wall clock;         *)
(*              CacheFairSpec adds fair scheduling of the threads.         *)
(*                                                                         *)
(* Floats: mean() keeps the quotient float(sum)/len as the fraction        *)
(* num/den.  Dates are proleptic ordinals (date.toordinal()).              *)
(***************************************************************************)
EXTENDS Integers, Sequences, FiniteSets, TLC

VARIABLES
    source,      \* rows csv.reader yields for the file (each a sequence of fields)
    row_i,       \* index (1-based) of the next row the loop of get_data reads
    locals,      \* get_data's locals user_id, date, start, end (bound or not)
    data,        \* get_data's dict: user_id -> date -> [start, end]
    outcome,     \* "running" | "returned" | "raised" (UnboundLocalError)
    responses,   \* what the views answered for the user_id queried last
    user_items,  \* one user's date -> [start, end] map handed to a grouping
    weekdays,    \* what group_by_weekday(_start_end) returned for user_items
    cache_time,  \* the decorator's parameter
    cache,       \* __cache: func_name -> entry (fields 'data', 'created')
    lock,        \* __cache_lock: its holder, or None
    clock,       \* time.time()
    pc,          \* per thread: position inside inner()
    key,         \* per thread: func_name of the call in progress
    ret,         \* per thread: how its last call ended
    log          \* per key: facts about the calls made so far (history)

parseVars == <<source, row_i, locals, data, outcome>>
viewVars  == <<responses>>
groupVars == <<user_items, weekdays>>
cacheVars == <<cache_time, cache, lock, clock, pc, key, ret, log>>
vars      == <<source, row_i, locals, data, outcome, responses, user_items,
               weekdays,
               cache_time, cache, lock, clock, pc, key, ret, log>>

-----------------------------------------------------------------------------
(* Bounds *)

MaxLines == 3

-----------------------------------------------------------------------------
(* Field parsing: int(), strptime('%Y-%m-%d').date(), strptime('%H:%M:%S') *)

None == "None"

Parsed(v) == [ok |-> TRUE, val |-> v]
ValueError == [ok |-> FALSE, val |-> 0]

\* int(row[0]): base-10 integer, ValueError otherwise
int(s) ==
    CASE s = "10" -> Parsed(10)
      [] s = "11" -> Parsed(11)
      [] OTHER    -> ValueError

\* datetime.strptime(s, '%Y-%m-%d').date(), as the date's proleptic ordinal
strptime_date(s) ==
    CASE s = "2013-09-10" -> Parsed(735121)
      [] s = "2013-09-11" -> Parsed(735122)
      [] s = "2013-09-17" -> Parsed(735128)
      [] OTHER            -> ValueError

\* datetime.strptime(s, '%H:%M:%S').time()
strptime_time(s) ==
    CASE s = "09:39:05" -> Parsed([hour |-> 9, minute |-> 39, second |-> 5])
      [] s = "17:00:00" -> Parsed([hour |-> 17, minute |-> 0, second |-> 0])
      [] s = "08:00:00" -> Parsed([hour |-> 8, minute |-> 0, second |-> 0])
      [] s = "16:30:00" -> Parsed([hour |-> 16, minute |-> 30, second |-> 0])
      [] s = "09:19:52" -> Parsed([hour |-> 9, minute |-> 19, second |-> 52])
      [] OTHER          -> ValueError

\* date.weekday(): Monday is 0; ordinal 1 (0001-01-01) is a Monday
weekday(d) == (d + 6) % 7

-----------------------------------------------------------------------------
(* The rows a source is made of *)

Rows ==
    { <<"10", "2013-09-10", "09:39:05", "17:00:00">>,
      <<"10", "2013-09-17", "08:00:00", "16:30:00">>,
      <<"11", "2013-09-11", "09:19:52", "16:30:00">>,
      <<"10", "2013-09-10", "08:00:00", "16:30:00">>,
      <<"presence">>,
      <<"10", "2013-09-10", "09:19:52", "late">>,
      <<"abc", "2013-09-11", "09:19:52", "16:30:00">>,
      <<"11", "2013-13-40", "09:39:05", "17:00:00">> }

Sources == UNION { [1..n -> Rows] : n \in 0..MaxLines }

-----------------------------------------------------------------------------
(* get_data, one loop iteration per step *)

Unbound == [bound |-> FALSE, val |-> 0]
Bound(v) == [bound |-> TRUE, val |-> v]

NoLocals == [user_id |-> Unbound, date |-> Unbound,
             start |-> Unbound, end |-> Unbound]

\* the try block: each assignment happens only if every conversion before
\* it (and its own) succeeded; the first ValueError leaves the rest as is
try_block(l, row) ==
    LET u == int(row[1])
        d == strptime_date(row[2])
        s == strptime_time(row[3])
        e == strptime_time(row[4])
        l1 == IF u.ok THEN [l EXCEPT !.user_id = Bound(u.val)] ELSE l
        l2 == IF u.ok /\ d.ok THEN [l1 EXCEPT !.date = Bound(d.val)] ELSE l1
        l3 == IF u.ok /\ d.ok /\ s.ok
              THEN [l2 EXCEPT !.start = Bound(s.val)] ELSE l2
        l4 == IF u.ok /\ d.ok /\ s.ok /\ e.ok
              THEN [l3 EXCEPT !.end = Bound(e.val)] ELSE l3
    IN l4

\* whether the row's four conversions all succeed
row_parses(row) ==
    /\ int(row[1]).ok
    /\ strptime_date(row[2]).ok
    /\ strptime_time(row[3]).ok
    /\ strptime_time(row[4]).ok

\* data.setdefault(user_id, {})[date] = {'start': start, 'end': end}
setdefault_store(dt, u, d, s, e) ==
    LET inner == IF u \in DOMAIN dt THEN dt[u] ELSE <<>>
        entry == [start |-> s, end |-> e]
        inner2 == [x \in DOMAIN inner \cup {d} |->
                      IF x = d THEN entry ELSE inner[x]]
    IN [x \in DOMAIN dt \cup {u} |-> IF x = u THEN inner2 ELSE dt[x]]

\* line 94 reads the four locals; reading an unbound one raises
\* UnboundLocalError, which no handler of get_data catches
all_bound(l) ==
    l.user_id.bound /\ l.date.bound /\ l.start.bound /\ l.end.bound

\* lines 82-84: a row whose field count is not 4 is skipped
GetDataSkip ==
    /\ outcome = "running"
    /\ row_i <= Len(source)
    /\ Len(source[row_i]) # 4
    /\ row_i' = row_i + 1
    /\ UNCHANGED <<source, locals, data, outcome>>
    /\ UNCHANGED viewVars
    /\ UNCHANGED groupVars
    /\ UNCHANGED cacheVars

\* lines 86-94 for a row whose conversions succeed
GetDataStore ==
    /\ outcome = "running"
    /\ row_i <= Len(source)
    /\ Len(source[row_i]) = 4
    /\ row_parses(source[row_i])
    /\ LET l == try_block(locals, source[row_i])
       IN /\ locals' = l
          /\ data' = setdefault_store(data, l.user_id.val, l.date.val,
                                      l.start.val, l.end.val)
    /\ row_i' = row_i + 1
    /\ UNCHANGED <<source, outcome>>
    /\ UNCHANGED viewVars
    /\ UNCHANGED groupVars
    /\ UNCHANGED cacheVars

\* lines 86-94 for a row with a conversion that raises ValueError: the
\* handler logs and falls through to line 94 with whatever the locals hold
GetDataExcept ==
    /\ outcome = "running"
    /\ row_i <= Len(source)
    /\ Len(source[row_i]) = 4
    /\ ~row_parses(source[row_i])
    /\ LET l == try_block(locals, source[row_i])
       IN /\ locals' = l
          /\ IF all_bound(l)
             THEN /\ data' = setdefault_store(data, l.user_id.val, l.date.val,
                                              l.start.val, l.end.val)
                  /\ row_i' = row_i + 1
                  /\ outcome' = outcome
             ELSE /\ outcome' = "raised"
                  /\ UNCHANGED <<data, row_i>>
    /\ UNCHANGED source
    /\ UNCHANGED viewVars
    /\ UNCHANGED groupVars
    /\ UNCHANGED cacheVars

\* line 96
GetDataReturn ==
    /\ outcome = "running"
    /\ row_i > Len(source)
    /\ outcome' = "returned"
    /\ UNCHANGED <<source, row_i, locals, data>>
    /\ UNCHANGED viewVars
    /\ UNCHANGED groupVars
    /\ UNCHANGED cacheVars

-----------------------------------------------------------------------------
(* Aggregation helpers *)

\* time.hour * 3600 + time.minute * 60 + time.second
seconds_since_midnight(time) ==
    time.hour * 3600 + time.minute * 60 + time.second

interval(start, end) ==
    seconds_since_midnight(end) - seconds_since_midnight(start)

RECURSIVE sum(_)
sum(items) == IF items = <<>> THEN 0 ELSE Head(items) + sum(Tail(items))

\* mutant of mean: the sum divided by the days of the week
mean_over_week(items) ==
    IF Len(items) > 0
    THEN [num |-> sum(items), den |-> 7]
    ELSE [num |-> 0, den |-> 1]

\* float(sum(items)) / len(items) if len(items) > 0 else 0.  The quotient
\* is kept as the fraction num/den; the value for an empty list is 0/1.
mean(items) ==
    IF Len(items) > 0
    THEN [num |-> sum(items), den |-> Len(items)]
    ELSE [num |-> 0, den |-> 1]

\* the orders in which iterating a dict with key set S may yield its keys
Orders(S) ==
    { o \in [1..Cardinality(S) -> S] : { o[n] : n \in DOMAIN o } = S }

\* result = {i: [] for i in range(7)}; for date in items: ...append(...)
RECURSIVE group_by_weekday_loop(_, _, _)
group_by_weekday_loop(items, order, result) ==
    IF order = <<>>
    THEN result
    ELSE LET date == Head(order)
             start == items[date].start
             end == items[date].end
         IN group_by_weekday_loop(items, Tail(order),
                [result EXCEPT ![weekday(date)] =
                    Append(@, interval(start, end))])

\* mutant of group_by_weekday: buckets created on demand (defaultdict(list))
group_by_weekday_on_demand(items, order) ==
    LET full == group_by_weekday_loop(items, order, [i \in 0..6 |-> <<>>])
    IN [i \in { weekday(d) : d \in DOMAIN items } |-> full[i]]

group_by_weekday(items, order) ==
    group_by_weekday_loop(items, order, [i \in 0..6 |-> <<>>])

\* result = {i: defaultdict(list) for i in range(7)}; a bucket's 'start'
\* and 'end' read as the empty list until something is appended
RECURSIVE group_by_weekday_start_end_loop(_, _, _)
group_by_weekday_start_end_loop(items, order, result) ==
    IF order = <<>>
    THEN result
    ELSE LET date == Head(order)
             start == items[date].start
             end == items[date].end
         IN group_by_weekday_start_end_loop(items, Tail(order),
                [result EXCEPT
                    ![weekday(date)].start =
                        Append(@, seconds_since_midnight(start)),
                    ![weekday(date)].end =
                        Append(@, seconds_since_midnight(end))])

group_by_weekday_start_end(items, order) ==
    group_by_weekday_start_end_loop(items, order,
        [i \in 0..6 |-> [start |-> <<>>, end |-> <<>>]])

-----------------------------------------------------------------------------
(* Views *)

\* calendar.day_abbr[weekday]
day_abbr(wd) == <<"Mon", "Tue", "Wed", "Thu", "Fri", "Sat", "Sun">>[wd + 1]

\* the user ids a request may carry
QueryUsers == {10, 11, 999}

\* weekdays.items() yields the keys 0..6 in the order they were inserted
mean_time_weekday_view(dt, user_id, order) ==
    IF user_id \notin DOMAIN dt
    THEN <<>>
    ELSE LET wds == group_by_weekday(dt[user_id], order)
         IN [n \in 1..7 |-> <<day_abbr(n - 1), mean(wds[n - 1])>>]

\* mutant of presence_weekday_view: the header row is not inserted
presence_weekday_view_no_header(dt, user_id, order) ==
    IF user_id \notin DOMAIN dt
    THEN <<>>
    ELSE LET wds == group_by_weekday(dt[user_id], order)
         IN [n \in 1..7 |-> <<day_abbr(n - 1), sum(wds[n - 1])>>]

presence_weekday_view(dt, user_id, order) ==
    IF user_id \notin DOMAIN dt
    THEN <<>>
    ELSE LET wds == group_by_weekday(dt[user_id], order)
             result == [n \in 1..7 |-> <<day_abbr(n - 1), sum(wds[n - 1])>>]
         IN <<(<<"Weekday", "Presence (s)">>)>> \o result

\* mutant of presence_start_end_view: data.get(user_id, {}) instead of the
\* membership test
presence_start_end_view_get(dt, user_id, order) ==
    LET its == IF user_id \in DOMAIN dt THEN dt[user_id] ELSE <<>>
        wds == group_by_weekday_start_end(its, order)
    IN [n \in 1..7 |-> <<day_abbr(n - 1),
                           mean(wds[n - 1].start),
                           mean(wds[n - 1].end)>>]

presence_start_end_view(dt, user_id, order) ==
    IF user_id \notin DOMAIN dt
    THEN <<>>
    ELSE LET wds == group_by_weekday_start_end(dt[user_id], order)
         IN [n \in 1..7 |-> <<day_abbr(n - 1),
                                mean(wds[n - 1].start),
                                mean(wds[n - 1].end)>>]

NotCalled == [called |-> FALSE, body |-> <<>>]
Answer(body) == [called |-> TRUE, body |-> body]
NoResponses == [user_id |-> 0, mean_time_weekday |-> NotCalled,
                presence_weekday |-> NotCalled,
                presence_start_end |-> NotCalled]

\* the responses seen for the user_id queried last
Respond(user_id, view, body) ==
    [(IF responses.user_id = user_id
      THEN responses
      ELSE [NoResponses EXCEPT !.user_id = user_id])
        EXCEPT ![view] = Answer(body)]

\* the key orders of data[user_id]; one empty order for an unknown user
ItemOrders(user_id) ==
    IF user_id \in DOMAIN data THEN Orders(DOMAIN data[user_id]) ELSE {<<>>}

MeanTimeWeekdayView ==
    /\ outcome = "returned"
    /\ \E user_id \in QueryUsers : \E order \in ItemOrders(user_id) :
        /\ responses' = Respond(user_id, "mean_time_weekday",
                            mean_time_weekday_view(data, user_id, order))
    /\ UNCHANGED parseVars
    /\ UNCHANGED groupVars
    /\ UNCHANGED cacheVars

PresenceWeekdayView ==
    /\ outcome = "returned"
    /\ \E user_id \in QueryUsers : \E order \in ItemOrders(user_id) :
        /\ responses' = Respond(user_id, "presence_weekday",
                            presence_weekday_view(data, user_id, order))
    /\ UNCHANGED parseVars
    /\ UNCHANGED groupVars
    /\ UNCHANGED cacheVars

PresenceStartEndView ==
    /\ outcome = "returned"
    /\ \E user_id \in QueryUsers : \E order \in ItemOrders(user_id) :
        /\ responses' = Respond(user_id, "presence_start_end",
                            presence_start_end_view(data, user_id, order))
    /\ UNCHANGED parseVars
    /\ UNCHANGED groupVars
    /\ UNCHANGED cacheVars

-----------------------------------------------------------------------------
(* The grouping helpers applied to any map of one user *)

MaxItems == 3
MaxDays == 8

\* 2013-09-09, a Monday, and the days after it
ItemDates == { 735120 + n : n \in 0..(MaxDays - 1) }

ItemEntries ==
    { [start |-> [hour |-> 9, minute |-> 39, second |-> 5],
       end |-> [hour |-> 17, minute |-> 0, second |-> 0]],
      [start |-> [hour |-> 8, minute |-> 0, second |-> 0],
       end |-> [hour |-> 16, minute |-> 30, second |-> 0]] }

ItemMaps ==
    UNION { [D -> ItemEntries] :
              D \in { X \in SUBSET ItemDates : Cardinality(X) <= MaxItems } }

NoWeekdays == [kind |-> "none", result |-> <<>>]

GroupByWeekday ==
    /\ weekdays.kind = "none"
    /\ \E order \in Orders(DOMAIN user_items) :
        weekdays' = [kind |-> "group_by_weekday",
                     result |-> group_by_weekday(user_items, order)]
    /\ UNCHANGED user_items
    /\ UNCHANGED parseVars
    /\ UNCHANGED viewVars
    /\ UNCHANGED cacheVars

GroupByWeekdayStartEnd ==
    /\ weekdays.kind = "none"
    /\ \E order \in Orders(DOMAIN user_items) :
        weekdays' = [kind |-> "group_by_weekday_start_end",
                     result |-> group_by_weekday_start_end(user_items, order)]
    /\ UNCHANGED user_items
    /\ UNCHANGED parseVars
    /\ UNCHANGED viewVars
    /\ UNCHANGED cacheVars

-----------------------------------------------------------------------------
(* The cache decorator *)

MaxClock == 3
MaxCacheTime == 2

Threads == {"t1", "t2"}

\* func_name = repr(func) + repr(args) + repr(kwargs)
FuncNames == {"k1", "k2"}

\* what func may return
Values == {"A", "B"}

\* __cache[func_name][field] = v, on a defaultdict(dict)
set_item(c, func_name, field, v) ==
    LET e == IF func_name \in DOMAIN c THEN c[func_name] ELSE <<>>
        e2 == [x \in DOMAIN e \cup {field} |-> IF x = field THEN v ELSE e[x]]
    IN [x \in DOMAIN c \cup {func_name} |-> IF x = func_name THEN e2 ELSE c[x]]

\* mutant of is_cache_expired: an entry exactly cache_time old is expired
is_cache_expired_at_ttl(c, func_name, now, ttl) ==
    (now - c[func_name]["created"]) >= ttl

\* (time.time() - __cache[func_name]['created']) > cache_time
is_cache_expired(c, func_name, now, ttl) ==
    (now - c[func_name]["created"]) > ttl

\* func_name not in __cache or is_cache_expired(func_name)
must_compute(c, func_name, now, ttl) ==
    func_name \notin DOMAIN c \/ is_cache_expired(c, func_name, now, ttl)

\* mutant of lock_free: no mutual exclusion
lock_free_always(l) == TRUE

\* threading.Lock: acquire() proceeds only while nobody holds the lock
lock_free(l) == l = None

\* mutant of exit_on_raise: acquire()/release() with no try/finally
exit_on_raise_keeps_lock(l) == l

\* the with statement's exit when func raised
exit_on_raise(l) == None

\* the with statement's exit on return
exit_on_return(l) == None

\* mutant of cache_on_raise: the entry is stamped although func raised
cache_on_raise_stamped(c, func_name, now) ==
    IF func_name \in DOMAIN c
    THEN [c EXCEPT ![func_name] =
             [x \in DOMAIN c[func_name] \cup {"created"} |->
                 IF x = "created" THEN now ELSE c[func_name][x]]]
    ELSE c

\* __cache as func's exception leaves it: the right-hand side of line 51
\* raised before __cache[func_name] was evaluated
cache_on_raise(c, func_name, now) == c

\* ret: how a call ended, and for a value the 'created' of the entry read.
\* log[func_name]: at = when the last call that had to compute checked the
\* entry, val = the value the last call returned (None while a computation
\* is under way), failed = the last computation raised.
NoRet == [kind |-> "none", val |-> None, created |-> 0]
Raised == [kind |-> "raised", val |-> None, created |-> 0]
NoLog == [has |-> FALSE, at |-> 0, val |-> None, failed |-> FALSE]

\* line 47, then the thread reaches the with statement
Call(t) ==
    /\ pc[t] = "idle"
    /\ \E func_name \in FuncNames : key' = [key EXCEPT ![t] = func_name]
    /\ pc' = [pc EXCEPT ![t] = "with"]
    /\ ret' = [ret EXCEPT ![t] = NoRet]
    /\ UNCHANGED <<cache_time, cache, lock, clock, log>>
    /\ UNCHANGED parseVars
    /\ UNCHANGED viewVars
    /\ UNCHANGED groupVars

\* line 49: __cache_lock.__enter__()
Acquire(t) ==
    /\ pc[t] = "with"
    /\ lock_free(lock)
    /\ lock' = t
    /\ pc' = [pc EXCEPT ![t] = "if"]
    /\ UNCHANGED <<cache_time, cache, clock, key, ret, log>>
    /\ UNCHANGED parseVars
    /\ UNCHANGED viewVars
    /\ UNCHANGED groupVars

\* line 50.  An entry without 'created' makes is_cache_expired raise
\* KeyError, which leaves the with statement.
Check(t) ==
    /\ pc[t] = "if"
    /\ IF key[t] \in DOMAIN cache /\ "created" \notin DOMAIN cache[key[t]]
       THEN /\ pc' = [pc EXCEPT ![t] = "idle"]
            /\ ret' = [ret EXCEPT ![t] = Raised]
            /\ lock' = exit_on_raise(lock)
            /\ log' = log
       ELSE IF must_compute(cache, key[t], clock, cache_time)
       THEN /\ pc' = [pc EXCEPT ![t] = "func"]
            /\ log' = [log EXCEPT ![key[t]] =
                          [has |-> TRUE, at |-> clock, val |-> None,
                           failed |-> FALSE]]
            /\ UNCHANGED <<ret, lock>>
       ELSE /\ pc' = [pc EXCEPT ![t] = "return"]
            /\ UNCHANGED <<ret, lock, log>>
    /\ UNCHANGED <<cache_time, cache, clock, key>>
    /\ UNCHANGED parseVars
    /\ UNCHANGED viewVars
    /\ UNCHANGED groupVars

\* line 51: func returns and its result is stored
FuncReturn(t) ==
    /\ pc[t] = "func"
    /\ \E v \in Values : cache' = set_item(cache, key[t], "data", v)
    /\ pc' = [pc EXCEPT ![t] = "created"]
    /\ UNCHANGED <<cache_time, lock, clock, key, ret, log>>
    /\ UNCHANGED parseVars
    /\ UNCHANGED viewVars
    /\ UNCHANGED groupVars

\* line 51: func raises; the exception leaves the with statement and inner
FuncRaise(t) ==
    /\ pc[t] = "func"
    /\ cache' = cache_on_raise(cache, key[t], clock)
    /\ lock' = exit_on_raise(lock)
    /\ pc' = [pc EXCEPT ![t] = "idle"]
    /\ ret' = [ret EXCEPT ![t] = Raised]
    /\ log' = [log EXCEPT ![key[t]] = [NoLog EXCEPT !.failed = TRUE]]
    /\ UNCHANGED <<cache_time, clock, key>>
    /\ UNCHANGED parseVars
    /\ UNCHANGED viewVars
    /\ UNCHANGED groupVars

\* line 52
Stamp(t) ==
    /\ pc[t] = "created"
    /\ cache' = set_item(cache, key[t], "created", clock)
    /\ pc' = [pc EXCEPT ![t] = "return"]
    /\ UNCHANGED <<cache_time, lock, clock, key, ret, log>>
    /\ UNCHANGED parseVars
    /\ UNCHANGED viewVars
    /\ UNCHANGED groupVars

\* line 54, and the with statement's exit
Return(t) ==
    /\ pc[t] = "return"
    /\ ret' = [ret EXCEPT ![t] =
                  [kind |-> "value", val |-> cache[key[t]]["data"],
                   created |-> cache[key[t]]["created"]]]
    /\ log' = [log EXCEPT ![key[t]].val = cache[key[t]]["data"]]
    /\ lock' = exit_on_return(lock)
    /\ pc' = [pc EXCEPT ![t] = "idle"]
    /\ UNCHANGED <<cache_time, cache, clock, key>>
    /\ UNCHANGED parseVars
    /\ UNCHANGED viewVars
    /\ UNCHANGED groupVars

\* time passes
Tick ==
    /\ clock < MaxClock
    /\ clock' = clock + 1
    /\ UNCHANGED <<cache_time, cache, lock, key, pc, ret, log>>
    /\ UNCHANGED parseVars
    /\ UNCHANGED viewVars
    /\ UNCHANGED groupVars

-----------------------------------------------------------------------------
(* Specifications *)

IdleCache ==
    /\ cache = <<>>
    /\ lock = None
    /\ clock = 0
    /\ pc = [t \in Threads |-> "idle"]
    /\ key = [t \in Threads |-> None]
    /\ ret = [t \in Threads |-> NoRet]
    /\ log = [k \in FuncNames |-> NoLog]

Init ==
    /\ source \in Sources
    /\ row_i = 1
    /\ locals = NoLocals
    /\ data = <<>>
    /\ outcome = "running"
    /\ responses = NoResponses
    /\ user_items = <<>>
    /\ weekdays = NoWeekdays
    /\ cache_time = MaxCacheTime
    /\ IdleCache

Next ==
    \/ GetDataSkip
    \/ GetDataStore
    \/ GetDataExcept
    \/ GetDataReturn
    \/ MeanTimeWeekdayView
    \/ PresenceWeekdayView
    \/ PresenceStartEndView

Spec == Init /\ [][Next]_vars

GroupInit ==
    /\ source = <<>>
    /\ row_i = 1
    /\ locals = NoLocals
    /\ data = <<>>
    /\ outcome = "running"
    /\ responses = NoResponses
    /\ user_items \in ItemMaps
    /\ weekdays = NoWeekdays
    /\ cache_time = MaxCacheTime
    /\ IdleCache

GroupNext ==
    \/ GroupByWeekday
    \/ GroupByWeekdayStartEnd

GroupSpec == GroupInit /\ [][GroupNext]_vars

CacheInit ==
    /\ source = <<>>
    /\ row_i = 1
    /\ locals = NoLocals
    /\ data = <<>>
    /\ outcome = "running"
    /\ responses = NoResponses
    /\ user_items = <<>>
    /\ weekdays = NoWeekdays
    /\ cache_time \in 1..MaxCacheTime
    /\ IdleCache

CacheNext ==
    \/ \E t \in Threads : Call(t)
    \/ \E t \in Threads : Acquire(t)
    \/ \E t \in Threads : Check(t)
    \/ \E t \in Threads : FuncReturn(t)
    \/ \E t \in Threads : FuncRaise(t)
    \/ \E t \in Threads : Stamp(t)
    \/ \E t \in Threads : Return(t)
    \/ Tick

CacheSpec == CacheInit /\ [][CacheNext]_vars

\* every step of a thread inside inner() is eventually taken; the lock is
\* handed to every thread that keeps asking for it; func terminates
CacheFairness ==
    \A t \in Threads :
        /\ SF_vars(Acquire(t))
        /\ WF_vars(Check(t))
        /\ WF_vars(FuncReturn(t) \/ FuncRaise(t))
        /\ WF_vars(Stamp(t))
        /\ WF_vars(Return(t))

CacheFairSpec == CacheSpec /\ CacheFairness

-----------------------------------------------------------------------------
(* Properties of get_data *)

\* the rows of src that have four fields, all of which parse
WellFormed(src) ==
    { n \in 1..Len(src) : Len(src[n]) = 4 /\ row_parses(src[n]) }

RowUser(row) == int(row[1]).val
RowDate(row) == strptime_date(row[2]).val
RowEntry(row) ==
    [start |-> strptime_time(row[3]).val, end |-> strptime_time(row[4]).val]

\* the last well-formed row of src for (u, d)
LastRecord(src, u, d) ==
    CHOOSE n \in WellFormed(src) :
        /\ RowUser(src[n]) = u /\ RowDate(src[n]) = d
        /\ \A m \in WellFormed(src) :
              RowUser(src[m]) = u /\ RowDate(src[m]) = d => m <= n

\* the table the well-formed rows of src make on their own
WellFormedTable(src) ==
    LET wf == WellFormed(src)
        users == { RowUser(src[n]) : n \in wf }
        dates(u) == { RowDate(src[n]) : n \in { m \in wf : RowUser(src[m]) = u } }
    IN [u \in users |->
          [d \in dates(u) |-> RowEntry(src[LastRecord(src, u, d)])]]

\* C1: for every source get_data returns normally, and the table it returns
\* is the one built from the well-formed lines alone: a malformed line adds,
\* changes and overwrites nothing, and the lines after it are still parsed.
C1_MalformedLinesExcluded ==
    outcome # "running" =>
        /\ outcome = "returned"
        /\ data = WellFormedTable(source)

\* C7: the table holds one entry per (user_id, date), and where the source
\* has well-formed records for (user_id, date) the entry is the last one's.
C7_LastRecordWins ==
    outcome = "returned" =>
        \A n \in WellFormed(source) :
            LET u == RowUser(source[n])
                d == RowDate(source[n])
            IN /\ u \in DOMAIN data
               /\ d \in DOMAIN data[u]
               /\ data[u][d] = RowEntry(source[LastRecord(source, u, d)])

-----------------------------------------------------------------------------
(* Properties of the views *)

Known == responses.user_id \in DOMAIN data

\* C4 as stated: for every user_id, known or not, the presence_weekday
\* result is one row longer than the mean_time_weekday result.
C4_AlwaysOneLonger ==
    (responses.mean_time_weekday.called /\ responses.presence_weekday.called)
        => Len(responses.presence_weekday.body)
               = Len(responses.mean_time_weekday.body) + 1

\* C4 amended: for a user_id that is a key of the table the presence_weekday
\* result is one row (the header) longer than the mean_time_weekday result;
\* for an unknown user_id both results are empty, hence equally long.
C4_OneLongerForKnownUser ==
    (responses.mean_time_weekday.called /\ responses.presence_weekday.called)
        => IF Known
           THEN Len(responses.presence_weekday.body)
                    = Len(responses.mean_time_weekday.body) + 1
           ELSE /\ Len(responses.presence_weekday.body) = 0
                /\ Len(responses.mean_time_weekday.body) = 0

C4_Witness ==
    /\ responses.mean_time_weekday.called
    /\ responses.presence_weekday.called
    /\ Known
    /\ Len(responses.presence_weekday.body) = 8

\* C5 (answers): a view queried with a user_id that is no key of the table
\* answers the empty sequence.
C5_EmptyAnswers ==
    (outcome = "returned" /\ ~Known) =>
        /\ responses.mean_time_weekday.called
              => responses.mean_time_weekday.body = <<>>
        /\ responses.presence_weekday.called
              => responses.presence_weekday.body = <<>>
        /\ responses.presence_start_end.called
              => responses.presence_start_end.body = <<>>

\* C5: for a user_id that is no key of the table the three views answer the
\* empty sequence, and no query changes the table get_data returned.
C5_UnknownUserEmpty ==
    /\ []C5_EmptyAnswers
    /\ [][outcome = "returned" => data' = data]_vars

C5_Witness ==
    /\ outcome = "returned"
    /\ data # <<>>
    /\ responses.user_id = 999
    /\ responses.mean_time_weekday.called
    /\ responses.presence_weekday.called
    /\ responses.presence_start_end.called

\* the calendar: 2013-09-09 (ordinal 735120) was a Monday
FallsOn(d, i) == (d - 735120) % 7 = i

WeekdayLabels == <<"Mon", "Tue", "Wed", "Thu", "Fri", "Sat", "Sun">>

RECURSIVE SetSum(_, _)
SetSum(S, f) ==
    IF S = {} THEN 0
    ELSE LET x == CHOOSE y \in S : TRUE IN f[x] + SetSum(S \ {x}, f)

\* q is the quotient total / count, and exactly zero for count = 0
IsMeanOf(q, total, count) ==
    IF count = 0
    THEN q.num = 0
    ELSE q.den > 0 /\ q.num * count = total * q.den

\* C6: for a user_id of the table, mean_time_weekday and presence_start_end
\* answer 7 rows labelled Mon..Sun in that order; row i carries the mean of
\* the interval lengths (resp. of the start and of the end offsets) of the
\* user's dates that fall on weekday i, and 0 when there is none.
C6_SevenRowsOfMeans ==
    (outcome = "returned" /\ Known) =>
        LET its == data[responses.user_id]
            on(i) == { d \in DOMAIN its : FallsOn(d, i) }
            len == [d \in DOMAIN its |->
                      seconds_since_midnight(its[d].end)
                        - seconds_since_midnight(its[d].start)]
            st == [d \in DOMAIN its |-> seconds_since_midnight(its[d].start)]
            en == [d \in DOMAIN its |-> seconds_since_midnight(its[d].end)]
            m == responses.mean_time_weekday
            se == responses.presence_start_end
        IN /\ m.called =>
                /\ Len(m.body) = 7
                /\ \A i \in 0..6 :
                     /\ m.body[i + 1][1] = WeekdayLabels[i + 1]
                     /\ IsMeanOf(m.body[i + 1][2], SetSum(on(i), len),
                                 Cardinality(on(i)))
           /\ se.called =>
                /\ Len(se.body) = 7
                /\ \A i \in 0..6 :
                     /\ se.body[i + 1][1] = WeekdayLabels[i + 1]
                     /\ IsMeanOf(se.body[i + 1][2], SetSum(on(i), st),
                                 Cardinality(on(i)))
                     /\ IsMeanOf(se.body[i + 1][3], SetSum(on(i), en),
                                 Cardinality(on(i)))

\* user 10 with two Tuesdays, both views answered
C6_Witness ==
    /\ outcome = "returned"
    /\ responses.user_id = 10
    /\ Known
    /\ Cardinality({ d \in DOMAIN data[10] : FallsOn(d, 1) }) = 2
    /\ responses.mean_time_weekday.called
    /\ responses.presence_start_end.called
    /\ responses.mean_time_weekday.body[2][2].den = 2

-----------------------------------------------------------------------------
(* Properties of the grouping helpers *)

Range(seq) == { seq[n] : n \in DOMAIN seq }

\* bucket holds one value per date of its that falls on weekday i
OnePerDate(bucket, its, i, f) ==
    LET on == { d \in DOMAIN its : FallsOn(d, i) }
    IN /\ Len(bucket) = Cardinality(on)
       /\ Range(bucket) = { f[d] : d \in on }
       /\ sum(bucket) = SetSum(on, f)

\* C8: group_by_weekday and group_by_weekday_start_end return a map whose
\* keys are exactly 0..6; every date of the input adds one value to the
\* bucket of its weekday and to no other, so a weekday without dates has an
\* empty bucket and the bucket sizes add up to the number of dates.
C8_SevenBuckets ==
    LET len == [d \in DOMAIN user_items |->
                  seconds_since_midnight(user_items[d].end)
                    - seconds_since_midnight(user_items[d].start)]
        st == [d \in DOMAIN user_items |->
                  seconds_since_midnight(user_items[d].start)]
        en == [d \in DOMAIN user_items |->
                  seconds_since_midnight(user_items[d].end)]
        r == weekdays.result
    IN /\ weekdays.kind = "group_by_weekday" =>
            /\ DOMAIN r = 0..6
            /\ \A i \in 0..6 : OnePerDate(r[i], user_items, i, len)
            /\ SetSum(0..6, [i \in 0..6 |-> Len(r[i])])
                  = Cardinality(DOMAIN user_items)
       /\ weekdays.kind = "group_by_weekday_start_end" =>
            /\ DOMAIN r = 0..6
            /\ \A i \in 0..6 :
                  /\ OnePerDate(r[i].start, user_items, i, st)
                  /\ OnePerDate(r[i].end, user_items, i, en)
            /\ SetSum(0..6, [i \in 0..6 |-> Len(r[i].start)])
                  = Cardinality(DOMAIN user_items)

\* two Mondays and another day, grouped by start and end
C8_Witness ==
    /\ weekdays.kind = "group_by_weekday_start_end"
    /\ Cardinality(DOMAIN user_items) = 3
    /\ Len(weekdays.result[0].start) = 2
    /\ Len(weekdays.result[5].start) = 0

\* the empty map, grouped
C8_EmptyMapReached ==
    weekdays.kind = "group_by_weekday" /\ user_items = <<>>

-----------------------------------------------------------------------------
(* Properties of the cache *)

InCritical(t) == pc[t] \in {"if", "func", "created", "return"}

Absent(k) == k \notin DOMAIN cache

\* the entry of k is complete and at most cache_time old
Fresh(k) ==
    /\ k \in DOMAIN cache
    /\ "created" \in DOMAIN cache[k]
    /\ clock - cache[k]["created"] <= cache_time

\* what C2 says of one step of thread t
C2_Step(t) ==
    LET k == key[t]
        stale == Absent(k) \/ clock - cache[k]["created"] > cache_time
    IN /\ (pc[t] = "if" /\ pc'[t] # "if") =>
            /\ pc'[t] = "func" <=> stale
            /\ ~stale => (pc'[t] = "return" /\ cache' = cache)
            /\ (log[k].has /\ log[k].val # None
                  /\ clock - log[k].at <= cache_time) => pc'[t] = "return"
       /\ (pc[t] = "return" /\ pc'[t] = "idle") =>
            /\ ret'[t].kind = "value"
            /\ ret'[t].val = cache[k]["data"]
            /\ cache' = cache
            /\ log[k].val # None => ret'[t].val = log[k].val

\* C2: a call invokes func exactly when the key has no entry or the entry
\* is more than cache_time old at the check; otherwise it returns the stored
\* result, the one the previous call returned, and leaves the cache alone.
\* A call within cache_time of a call that computed does not compute.
C2_ComputeIffAbsentOrExpired ==
    [][\A t \in Threads : C2_Step(t)]_vars

\* a hit about to return, exactly cache_time after the computing call checked
C2_Witness ==
    \E t \in Threads :
        /\ pc[t] = "return"
        /\ log[key[t]].val # None
        /\ clock - log[key[t]].at = cache_time

\* C3: at most one thread is between the check and the return; no thread is
\* computing or storing for a key whose entry is fresh; threads that were
\* served the same entry got the same result, the stored one.
C3_AtomicRefresh ==
    /\ Cardinality({ t \in Threads : InCritical(t) }) <= 1
    /\ \A t \in Threads : pc[t] \in {"func", "created"} => ~Fresh(key[t])
    /\ \A t, u \in Threads :
          (/\ pc[t] = "idle" /\ ret[t].kind = "value"
           /\ pc[u] = "idle" /\ ret[u].kind = "value"
           /\ key[t] = key[u] /\ ret[t].created = ret[u].created)
              => ret[t].val = ret[u].val
    /\ \A t \in Threads :
          (/\ pc[t] = "idle" /\ ret[t].kind = "value"
           /\ ~Absent(key[t])
           /\ "created" \in DOMAIN cache[key[t]]
           /\ cache[key[t]]["created"] = ret[t].created
           /\ \A u \in Threads : ~(pc[u] = "created" /\ key[u] = key[t]))
              => ret[t].val = cache[key[t]]["data"]

\* one thread computing while another waits for the lock with the same key,
\* after an earlier call was served
C3_Witness ==
    \E t, u \in Threads :
        /\ pc[t] = "func"
        /\ pc[u] = "with"
        /\ key[t] = key[u]
        /\ ~Absent(key[t])

\* what C9 says of one step of thread t
C9_Step(t) ==
    /\ (pc[t] = "func" /\ pc'[t] = "idle") =>
          /\ ret'[t].kind = "raised"
          /\ cache' = cache
          /\ lock' = None
    /\ (pc[t] = "if" /\ pc'[t] # "if" /\ log[key[t]].failed) =>
          pc'[t] = "func"

\* C9: when func raises, the call ends with the exception, the entry table
\* is as it was (no entry after a first miss, the old expired entry
\* otherwise) and the lock is free; the entry is not fresh, so the next call
\* for the key computes again.
C9_FailureLeavesCache ==
    /\ [][\A t \in Threads : C9_Step(t)]_vars
    /\ [](\A k \in FuncNames : log[k].failed => ~Fresh(k))

\* a refresh of an expired entry has failed: the old entry is still there
C9_Witness ==
    \E t \in Threads : \E k \in FuncNames :
        /\ pc[t] = "idle" /\ ret[t].kind = "raised" /\ key[t] = k
        /\ log[k].failed
        /\ ~Absent(k)
        /\ lock = None

====
